---------------------------- MODULE Spec2Model ----------------------------
(***************************************************************************)
(* BareMetal: the scenario-driven simulators of the visualizer.            *)
(*                                                                         *)
(*   - the Memory State Reconstructor (pages/labs/MemoryLab.tsx,           *)
(*     reconstructState) and the memory lab's navigation state             *)
(*     (store/useLabStore.ts, components/memory/CodeStepperPanel.tsx);     *)
(*   - the scenario-driven concurrency simulator (the ConcurrencyLab       *)
(*     component with runSimulation / simulate / stopSimulation / reset);  *)
(*   - the preset-driven concurrency lab (pages/labs/ConcurrencyLab.tsx).  *)
(*                                                                         *)
(* The specifications share the variables:                                 *)
(*   FoldSpec  the reconstruction as a pure fold over bounded step lists;  *)
(*   LabSpec   the memory lab over the scenario catalog;                   *)
(*   PlaySpec  the memory lab's stepper and auto-play on one scenario;     *)
(*   SimSpec   the concurrency simulator over the scenario catalog;        *)
(*   ProbeSpec, CleanRunSpec  the simulator on task lists outside it;      *)
(*   ReinitSpec  the simulator with the scenario and language selectors;   *)
(*   PresetSpec  the preset-driven concurrency lab.                        *)
(***************************************************************************)
EXTENDS Integers, Sequences, FiniteSets, TLC

VARIABLES
    \* ---- memory lab (store + MemoryLab component) ----
    steps,                  \* the active step list (FoldSpec: the input list)
    language,               \* useLabStore.language
    currentMemoryScenario,  \* useLabStore.currentMemoryScenario
    currentMemoryStep,      \* useLabStore.currentMemoryStep
    memoryBlocks,           \* useLabStore.memoryBlocks
    isPlaying,              \* MemoryLab useState isPlaying
    crashed,                \* an effect threw: React unmounted the tree
    lastOp,                 \* the operation that produced this state
    \* ---- concurrency simulator (store + ConcurrencyLab component) ----
    currentConcurrencyScenario, \* useLabStore.currentConcurrencyScenario
    tasks,                  \* useLabStore.tasks
    isRunning,              \* ConcurrencyLab useState isRunning
    currentTime,            \* ConcurrencyLab useState currentTime
    metrics,                \* ConcurrencyLab useState metrics: <<>> is null, <<m>> is m
    frames,                 \* pending requestAnimationFrame callbacks, oldest first
    simulationRef           \* simulationRef.current: the loop whose frame was requested last

memVars == <<steps, language, currentMemoryScenario, currentMemoryStep,
             memoryBlocks, isPlaying, crashed>>
simVars == <<currentConcurrencyScenario, tasks, isRunning, currentTime,
             metrics, frames, simulationRef>>
vars == <<steps, language, currentMemoryScenario, currentMemoryStep,
          memoryBlocks, isPlaying, crashed, lastOp,
          currentConcurrencyScenario, tasks, isRunning, currentTime,
          metrics, frames, simulationRef>>

(***************************************************************************)
(* Values.                                                                 *)
(***************************************************************************)

\* An optional string field that is absent (JS undefined).
Undefined == "undefined"

\* An optional numeric field of a step that is absent; `x || d` treats an
\* absent blockSize and a blockSize of 0 alike.
NoSize == 0

Languages == {"cpp", "python", "javascript", "go", "rust"}

\* A MemoryStep; lineNumber, code and explanation are display-only and are
\* never read by the reconstruction.
Step(action, blockId, blockSize, owner, targetOwner, pointsTo) ==
    [action |-> action, blockId |-> blockId, blockSize |-> blockSize,
     owner |-> owner, targetOwner |-> targetOwner, pointsTo |-> pointsTo]

\* JS truthiness of an optional string: undefined and "" are falsy.
Truthy(s) == s # Undefined /\ s # ""

(***************************************************************************)
(* Number.prototype.toString(16).toUpperCase()                             *)
(***************************************************************************)
HexDigits == <<"0", "1", "2", "3", "4", "5", "6", "7",
               "8", "9", "A", "B", "C", "D", "E", "F">>

RECURSIVE ToHex(_)
ToHex(n) ==
    IF n < 16 THEN HexDigits[n + 1]
    ELSE ToHex(n \div 16) \o HexDigits[(n % 16) + 1]

HeapBase == 1879048192
HeapStride == 4096
StackBase == 67108864
StackStride == 256
DefaultHeapSize == 64
DefaultStackSize == 32

\* `0x${(0x70000000 + (i * 0x1000)).toString(16).toUpperCase()}`
HeapAddress(i) == "0x" \o ToHex(HeapBase + i * HeapStride)

\* `0x${(0x04000000 + (i * 0x100)).toString(16).toUpperCase()}`
StackAddress(i) == "0x" \o ToHex(StackBase + i * StackStride)

\* Mutant of BlockIdOf: the id is derived from the action alone.
BlockIdOfAction(step, i) == "stable-id-" \o step.action

\* step.blockId || `stable-id-${i}-${step.action}`
BlockIdOf(step, i) ==
    IF Truthy(step.blockId) THEN step.blockId
    ELSE "stable-id-" \o ToString(i) \o "-" \o step.action

(***************************************************************************)
(* Array helpers: Array.prototype.filter is SelectSeq, .map a function     *)
(* over the indices.                                                       *)
(***************************************************************************)
\* b.refCount !== undefined
HasRefCount(b) == "refCount" \in DOMAIN b

Max(a, b) == IF a >= b THEN a ELSE b

(***************************************************************************)
(* reconstructState: the switch over step.action, one operator per case.   *)
(* `blocks` is currentBlocks, `i` the 0-based index of the step.           *)
(***************************************************************************)

\* case 'allocate-heap': push; refCount is set only for python.
allocateHeap(blocks, step, i, lang) ==
    LET base == [id |-> BlockIdOf(step, i),
                 address |-> HeapAddress(i),
                 size |-> IF step.blockSize # NoSize THEN step.blockSize
                          ELSE DefaultHeapSize,
                 status |-> "allocated",
                 type |-> "heap",
                 owner |-> step.owner,
                 pointsTo |-> step.pointsTo]
    IN  Append(blocks, IF lang = "python" THEN base @@ [refCount |-> 1] ELSE base)

\* case 'allocate-stack': push; no refCount property.
allocateStack(blocks, step, i, lang) ==
    Append(blocks, [id |-> BlockIdOf(step, i),
                    address |-> StackAddress(i),
                    size |-> IF step.blockSize # NoSize THEN step.blockSize
                             ELSE DefaultStackSize,
                    status |-> "allocated",
                    type |-> "stack",
                    owner |-> step.owner,
                    pointsTo |-> step.pointsTo])

\* case 'free': filter out the block with the step's id, whatever its status.
freeBlock(blocks, step) ==
    IF Truthy(step.blockId)
    THEN SelectSeq(blocks, LAMBDA b : b.id # step.blockId)
    ELSE blocks

\* Mutant of leakBlock: the leaked block is dropped from the working set.
leakBlockDropped(blocks, step) ==
    IF Truthy(step.blockId)
    THEN SelectSeq(blocks, LAMBDA b : b.id # step.blockId)
    ELSE blocks

\* case 'leak'
leakBlock(blocks, step) ==
    IF Truthy(step.blockId)
    THEN [n \in 1..Len(blocks) |-> LET b == blocks[n] IN
        IF b.id = step.blockId
        THEN [b EXCEPT !.status = "leaked"] ELSE b]
    ELSE blocks

\* Mutant of transferOwnership: the block is looked up by its current owner
\* instead of its id.
transferOwnershipByOwner(blocks, step) ==
    IF Truthy(step.blockId) /\ Truthy(step.targetOwner)
    THEN [n \in 1..Len(blocks) |-> LET b == blocks[n] IN
        IF b.owner = step.owner
        THEN [b EXCEPT !.owner = step.targetOwner] ELSE b]
    ELSE blocks

\* case 'transfer-ownership'
transferOwnership(blocks, step) ==
    IF Truthy(step.blockId) /\ Truthy(step.targetOwner)
    THEN [n \in 1..Len(blocks) |-> LET b == blocks[n] IN
        IF b.id = step.blockId
        THEN [b EXCEPT !.owner = step.targetOwner] ELSE b]
    ELSE blocks

\* case 'add-reference'
addReference(blocks, step) ==
    IF Truthy(step.blockId)
    THEN [n \in 1..Len(blocks) |-> LET b == blocks[n] IN
        IF b.id = step.blockId /\ HasRefCount(b)
        THEN [b EXCEPT !.refCount = b.refCount + 1] ELSE b]
    ELSE blocks

\* The .map of case 'remove-reference': refCount := Math.max(0, refCount - 1).
decrementReference(blocks, step) ==
    [n \in 1..Len(blocks) |-> LET b == blocks[n] IN
        IF b.id = step.blockId /\ HasRefCount(b)
        THEN [b EXCEPT !.refCount = Max(0, b.refCount - 1)]
        ELSE b]

\* Mutant of dropUnreferenced: collection deferred, the filter left out.
dropUnreferencedDeferred(blocks) == blocks

\* The .filter of case 'remove-reference', over the whole array.
dropUnreferenced(blocks) ==
    SelectSeq(blocks, LAMBDA b : ~HasRefCount(b) \/ b.refCount > 0)

\* case 'remove-reference'
removeReference(blocks, step) ==
    IF Truthy(step.blockId)
    THEN dropUnreferenced(decrementReference(blocks, step))
    ELSE blocks

\* Mutant of gcMark: the id comparison left out of the map.
gcMarkAll(blocks, step) ==
    IF Truthy(step.blockId)
    THEN [n \in 1..Len(blocks) |-> [blocks[n] EXCEPT !.status = "garbage"]]
    ELSE blocks

\* case 'gc-mark'
gcMark(blocks, step) ==
    IF Truthy(step.blockId)
    THEN [n \in 1..Len(blocks) |-> LET b == blocks[n] IN
        IF b.id = step.blockId
        THEN [b EXCEPT !.status = "garbage"] ELSE b]
    ELSE blocks

\* Mutant of gcSweep: the filter tests the wrong status.
gcSweepWrongStatus(blocks) == SelectSeq(blocks, LAMBDA b : b.status # "freed")

\* case 'gc-sweep'
gcSweep(blocks) == SelectSeq(blocks, LAMBDA b : b.status # "garbage")

\* One iteration of the for loop: the switch (scope-enter and scope-exit
\* have no case and fall through).
applyStep(blocks, step, i, lang) ==
    CASE step.action = "allocate-heap"      -> allocateHeap(blocks, step, i, lang)
      [] step.action = "allocate-stack"     -> allocateStack(blocks, step, i, lang)
      [] step.action = "free"               -> freeBlock(blocks, step)
      [] step.action = "leak"               -> leakBlock(blocks, step)
      [] step.action = "transfer-ownership" -> transferOwnership(blocks, step)
      [] step.action = "add-reference"      -> addReference(blocks, step)
      [] step.action = "remove-reference"   -> removeReference(blocks, step)
      [] step.action = "gc-mark"            -> gcMark(blocks, step)
      [] step.action = "gc-sweep"           -> gcSweep(blocks)
      [] OTHER                              -> blocks

\* Mutant of initialBlocks: an incremental patch of the store's blocks.
initialBlocksIncremental(prev) == prev

\* let currentBlocks: MemoryBlock[] = []  -- the store's previous blocks
\* (`prev`) are not read.
initialBlocks(prev) == <<>>

\* for (let i = 0; i <= toStepIndex; i++): the loop from iteration i on.
\* Only called with toStepIndex < Len(stepList).
RECURSIVE replayFrom(_, _, _, _, _)
replayFrom(blocks, stepList, lang, i, toStepIndex) ==
    IF i > toStepIndex THEN blocks
    ELSE replayFrom(applyStep(blocks, stepList[i + 1], i, lang),
                    stepList, lang, i + 1, toStepIndex)

\* Mutant of reconstructThrows: the early return on an empty step list left
\* out, so steps[0] of an empty list is dereferenced.
reconstructThrowsUnguarded(stepList, toStepIndex) ==
    toStepIndex > Len(stepList) - 1

\* steps[i] is undefined for some i <= toStepIndex: step.blockId throws a
\* TypeError before setMemoryBlocks is reached.
reconstructThrows(stepList, toStepIndex) ==
    Len(stepList) > 0 /\ toStepIndex > Len(stepList) - 1

\* reconstructState(toStepIndex): the value handed to setMemoryBlocks, or
\* the store's blocks untouched when the step list is empty (early return)
\* or when the loop throws.
reconstructState(prev, stepList, lang, toStepIndex) ==
    IF Len(stepList) = 0 \/ reconstructThrows(stepList, toStepIndex)
    THEN prev
    ELSE replayFrom(initialBlocks(prev), stepList, lang, 0, toStepIndex)

(***************************************************************************)
(* FoldSpec: reconstructState as a pure function of (steps, language,      *)
(* index), applied in any order of indices to any bounded step list.       *)
(***************************************************************************)
MaxSteps == 3

FoldLanguages == {"cpp", "python"}

StepPool ==
    { Step("allocate-heap", "b1", 400, Undefined, Undefined, Undefined),
      Step("allocate-heap", "b2", NoSize, Undefined, Undefined, Undefined),
      Step("allocate-stack", Undefined, NoSize, "data", Undefined, "b1"),
      Step("free", "b1", NoSize, Undefined, Undefined, Undefined),
      Step("leak", "b1", NoSize, Undefined, Undefined, Undefined),
      Step("transfer-ownership", "b1", NoSize, "s1", "s2", Undefined),
      Step("add-reference", "b1", NoSize, Undefined, Undefined, Undefined),
      Step("remove-reference", "b1", NoSize, Undefined, Undefined, Undefined),
      Step("gc-mark", "b1", NoSize, Undefined, Undefined, Undefined),
      Step("gc-mark", "b2", NoSize, Undefined, Undefined, Undefined),
      Step("gc-sweep", Undefined, NoSize, Undefined, Undefined, Undefined),
      Step("scope-enter", Undefined, NoSize, Undefined, Undefined, Undefined),
      Step("scope-exit", Undefined, NoSize, Undefined, Undefined, Undefined) }

StepLists == UNION { [1..n -> StepPool] : n \in 1..MaxSteps }

\* The simulator's variables when the simulator is not part of the run.
SimIdle ==
    /\ currentConcurrencyScenario = Undefined
    /\ tasks = <<>>
    /\ isRunning = FALSE
    /\ currentTime = 0
    /\ metrics = <<>>
    /\ frames = <<>>
    /\ simulationRef = 0

FoldInit ==
    /\ steps \in StepLists
    /\ language \in FoldLanguages
    /\ currentMemoryScenario = Undefined
    /\ currentMemoryStep = 0
    /\ memoryBlocks = <<>>
    /\ isPlaying = FALSE
    /\ crashed = FALSE
    /\ lastOp = [op |-> "none", from |-> 0]
    /\ SimIdle

\* reconstructState(i) followed by setMemoryBlocks, for any index of the list.
FoldReconstruct ==
    \E i \in 0..(Len(steps) - 1) :
        /\ memoryBlocks' = reconstructState(memoryBlocks, steps, language, i)
        /\ currentMemoryStep' = i
        /\ lastOp' = [op |-> "reconstruct", from |-> currentMemoryStep]
        /\ UNCHANGED <<steps, language, currentMemoryScenario, isPlaying, crashed>>
        /\ UNCHANGED simVars

FoldNext == FoldReconstruct

FoldSpec == FoldInit /\ [][FoldNext]_vars

\* The fold of a step list up to index k, from an empty working set.
Replay(k) == replayFrom(<<>>, steps, language, 0, k)

Reconstructed == lastOp.op = "reconstruct"

BlockIndices == 1..Len(memoryBlocks)

IsAllocation(st) == st.action \in {"allocate-heap", "allocate-stack"}

(***************************************************************************)
(* Claims about the reconstruction (FoldSpec).                             *)
(***************************************************************************)

\* The address the source computes for a block of type `ty` allocated by
\* the step at index i.
AddressFor(ty, i) ==
    IF ty = "heap" THEN "0x" \o ToHex(HeapBase + i * HeapStride)
    ELSE "0x" \o ToHex(StackBase + i * StackStride)

\* C5: determinism. Whatever calls came before (the store's blocks left by
\* an earlier reconstruction at any index), the blocks published for the
\* current index are the fold of steps[0..index] from an empty working set,
\* and every block's address is the one given by its type and the index of
\* an allocation step of that id.
C5_Determinism ==
    Reconstructed =>
        /\ memoryBlocks = Replay(currentMemoryStep)
        /\ \A n \in BlockIndices :
             \E i \in 0..currentMemoryStep :
                /\ IsAllocation(steps[i + 1])
                /\ steps[i + 1].action = "allocate-" \o memoryBlocks[n].type
                /\ BlockIdOf(steps[i + 1], i) = memoryBlocks[n].id
                /\ memoryBlocks[n].address = AddressFor(memoryBlocks[n].type, i)

\* C5 witness: a reconstruction at an index lower than the one before it
\* (a step backward), over blocks left by the earlier call, with a block
\* in the result.
C5_Witness ==
    /\ Reconstructed
    /\ lastOp.from > currentMemoryStep
    /\ memoryBlocks # <<>>
    /\ Len(memoryBlocks) < Len(Replay(lastOp.from))

\* The ids of the blocks of a working set.
IdsOf(blocks) == { blocks[n].id : n \in 1..Len(blocks) }

\* C6 (as claimed): leak permanence. If the step at index k <= index is a
\* leak of a block present at k, the block is in the reconstructed set.
C6_LeakPermanence ==
    Reconstructed =>
        \A k \in 0..currentMemoryStep :
            (/\ steps[k + 1].action = "leak"
             /\ steps[k + 1].blockId \in IdsOf(Replay(k)))
            => steps[k + 1].blockId \in IdsOf(memoryBlocks)

\* The blocks of a working set that are marked garbage.
Garbage(blocks) == SelectSeq(blocks, LAMBDA b : b.status = "garbage")

\* C7 (as claimed): sweep completeness. With a gc-sweep at index s <= index,
\* every garbage block of the reconstructed set was allocated by a step
\* after s.
C7_SweepCompleteness_Original ==
    Reconstructed =>
        \A s \in 0..currentMemoryStep :
            steps[s + 1].action = "gc-sweep" =>
                \A n \in BlockIndices :
                    memoryBlocks[n].status = "garbage" =>
                        \E i \in (s + 1)..currentMemoryStep :
                            /\ IsAllocation(steps[i + 1])
                            /\ BlockIdOf(steps[i + 1], i) = memoryBlocks[n].id

\* C7 (amended): with a gc-sweep at index s <= index, every garbage block of
\* the reconstructed set was marked by a gc-mark step after s; at index s
\* itself the set holds no garbage block.
C7_SweepCompleteness ==
    Reconstructed =>
        \A s \in 0..currentMemoryStep :
            steps[s + 1].action = "gc-sweep" =>
                \A n \in BlockIndices :
                    memoryBlocks[n].status = "garbage" =>
                        \E m \in (s + 1)..currentMemoryStep :
                            /\ steps[m + 1].action = "gc-mark"
                            /\ steps[m + 1].blockId = memoryBlocks[n].id

\* C7 witness: the reconstruction ran through a gc-sweep that had a garbage
\* block to remove.
C7_Witness ==
    /\ Reconstructed
    /\ \E s \in 1..currentMemoryStep :
          /\ steps[s + 1].action = "gc-sweep"
          /\ Garbage(Replay(s - 1)) # <<>>
          /\ Garbage(Replay(s)) = <<>>

\* The blocks of a working set with the given id that carry a refCount.
Counted(blocks, id) ==
    SelectSeq(blocks, LAMBDA b : b.id = id /\ HasRefCount(b))

\* C8: reference-count floor. Every block of a reconstructed set that has a
\* refCount has refCount >= 1, and when the last step replayed is a
\* remove-reference, the blocks of its id that survive are exactly those
\* whose count before the step was at least 2.
C8_RefCountFloor ==
    Reconstructed =>
        /\ \A n \in BlockIndices :
              HasRefCount(memoryBlocks[n]) => memoryBlocks[n].refCount >= 1
        /\ (currentMemoryStep >= 1
            /\ steps[currentMemoryStep + 1].action = "remove-reference")
           => Len(Counted(memoryBlocks, steps[currentMemoryStep + 1].blockId))
              = Len(SelectSeq(Counted(Replay(currentMemoryStep - 1),
                                      steps[currentMemoryStep + 1].blockId),
                              LAMBDA b : b.refCount >= 2))

\* C8 witness: the last step replayed is a remove-reference on a block whose
\* count was 1, and another counted block is still in the set.
C8_Witness ==
    /\ Reconstructed
    /\ currentMemoryStep >= 1
    /\ steps[currentMemoryStep + 1].action = "remove-reference"
    /\ \E n \in 1..Len(Replay(currentMemoryStep - 1)) :
          LET b == Replay(currentMemoryStep - 1)[n]
          IN  b.id = steps[currentMemoryStep + 1].blockId
              /\ HasRefCount(b) /\ b.refCount = 1
    /\ \E n \in BlockIndices : HasRefCount(memoryBlocks[n])

\* The actions whose case reads step.blockId to pick the blocks it changes.
TargetedActions ==
    {"free", "leak", "transfer-ownership", "add-reference",
     "remove-reference", "gc-mark"}

\* The step at index s names, by its blockId, no block of the working set
\* the loop holds when it reaches that step.
MissesTarget(s) ==
    /\ steps[s + 1].action \in TargetedActions
    /\ Truthy(steps[s + 1].blockId)
    /\ steps[s + 1].blockId \notin IdsOf(Replay(s - 1))

\* C11: a targeted step (free, leak, transfer-ownership, add-reference,
\* remove-reference, gc-mark) whose blockId names no block of the working
\* set is a no-op: the working set after the step is the working set before
\* it, at every index replayed, and the blocks published when it is the last
\* step replayed are the working set before it.
C11_MissingTargetNoOp ==
    Reconstructed =>
        /\ \A s \in 0..currentMemoryStep :
              MissesTarget(s) => Replay(s) = Replay(s - 1)
        /\ MissesTarget(currentMemoryStep)
              => memoryBlocks = Replay(currentMemoryStep - 1)

\* C11 witness: the last step replayed misses its target while the working
\* set holds a block (under python, one with a refCount when the step is a
\* remove-reference).
C11_Witness ==
    /\ Reconstructed
    /\ currentMemoryStep >= 1
    /\ MissesTarget(currentMemoryStep)
    /\ language = "python"
    /\ steps[currentMemoryStep + 1].action = "remove-reference"
    /\ \E n \in BlockIndices : HasRefCount(memoryBlocks[n])

\* The step list [allocate-heap(b1, 400), scope-enter, leak(b1)].
ExampleSteps ==
    << Step("allocate-heap", "b1", 400, Undefined, Undefined, Undefined),
       Step("scope-enter", Undefined, NoSize, Undefined, Undefined, Undefined),
       Step("leak", "b1", NoSize, Undefined, Undefined, Undefined) >>

\* C15: for [allocate-heap(b1, 400), scope-enter, leak(b1)] the
\* reconstruction at index 2 is exactly one block, b1, leaked, of size 400,
\* and at index 0 exactly b1, allocated; and a scope-enter or scope-exit
\* step of any list leaves the working set as it was.
C15_ExampleLeak ==
    Reconstructed =>
        /\ (steps = ExampleSteps /\ currentMemoryStep = 2) =>
              /\ Len(memoryBlocks) = 1
              /\ memoryBlocks[1].id = "b1"
              /\ memoryBlocks[1].status = "leaked"
              /\ memoryBlocks[1].size = 400
        /\ (steps = ExampleSteps /\ currentMemoryStep = 0) =>
              /\ Len(memoryBlocks) = 1
              /\ memoryBlocks[1].id = "b1"
              /\ memoryBlocks[1].status = "allocated"
        /\ \A s \in 0..currentMemoryStep :
              steps[s + 1].action \in {"scope-enter", "scope-exit"}
                 => Replay(s) = Replay(s - 1)
        /\ memoryBlocks = Replay(currentMemoryStep)

\* C15 witness: the example list reconstructed at index 2 after a
\* reconstruction at another index.
C15_Witness ==
    /\ Reconstructed
    /\ steps = ExampleSteps
    /\ currentMemoryStep = 2
    /\ lastOp.from # 2
    /\ memoryBlocks # <<>>

\* The working set the loop holds before it runs the step at index k, and
\* the one it holds after.
Before(k) == Replay(k - 1)
After(k) == Replay(k)

\* C21 (as claimed): per-block state machine across increasing replay
\* index. From one index to the next a leaked block is still present and
\* leaked, a garbage block is still present and garbage unless the step is a
\* gc-sweep, and a block that is allocated either was allocated before the
\* step or was pushed by it; every status is allocated, leaked or garbage.
C21_BlockStateMachine ==
    Reconstructed =>
        \A k \in 1..currentMemoryStep :
            /\ \A n \in 1..Len(Before(k)) :
                  /\ Before(k)[n].status = "leaked" =>
                        \E m \in 1..Len(After(k)) :
                           /\ After(k)[m].id = Before(k)[n].id
                           /\ After(k)[m].status = "leaked"
                  /\ Before(k)[n].status = "garbage" =>
                        \/ steps[k + 1].action = "gc-sweep"
                        \/ \E m \in 1..Len(After(k)) :
                              /\ After(k)[m].id = Before(k)[n].id
                              /\ After(k)[m].status = "garbage"
            /\ \A m \in 1..Len(After(k)) :
                  /\ After(k)[m].status \in {"allocated", "leaked", "garbage"}
                  /\ After(k)[m].status = "allocated" =>
                        \/ /\ IsAllocation(steps[k + 1])
                           /\ BlockIdOf(steps[k + 1], k) = After(k)[m].id
                        \/ \E n \in 1..Len(Before(k)) :
                              /\ Before(k)[n].id = After(k)[m].id
                              /\ Before(k)[n].status = "allocated"

\* The field a targeted action writes on the blocks it matches.
NamedField(action) ==
    CASE action = "leak"               -> "status"
      [] action = "gc-mark"            -> "status"
      [] action = "transfer-ownership" -> "owner"
      [] action = "add-reference"      -> "refCount"

\* C24: frame of the per-action replay rules. A free step leaves exactly the
\* blocks whose id differs from the step's, in their order; a leak, gc-mark,
\* transfer-ownership or add-reference step keeps the number and order of
\* the blocks, leaves every block of another id as it was, and on a block
\* of its id changes at most the named field, to leaked, garbage, the
\* step's targetOwner, or the count plus one.
C24_ReplayFrame ==
    Reconstructed =>
        /\ memoryBlocks = After(currentMemoryStep)
        /\ \A k \in 0..currentMemoryStep :
              /\ steps[k + 1].action = "free" =>
                    After(k) = SelectSeq(Before(k),
                                         LAMBDA b : b.id # steps[k + 1].blockId)
              /\ steps[k + 1].action
                    \in {"leak", "gc-mark", "transfer-ownership", "add-reference"} =>
                    /\ Len(After(k)) = Len(Before(k))
                    /\ \A n \in 1..Len(Before(k)) :
                          IF Before(k)[n].id # steps[k + 1].blockId
                          THEN After(k)[n] = Before(k)[n]
                          ELSE /\ DOMAIN After(k)[n] = DOMAIN Before(k)[n]
                               /\ \A f \in DOMAIN Before(k)[n]
                                         \ {NamedField(steps[k + 1].action)} :
                                     After(k)[n][f] = Before(k)[n][f]
                               /\ steps[k + 1].action = "leak" =>
                                     After(k)[n].status = "leaked"
                               /\ steps[k + 1].action = "gc-mark" =>
                                     After(k)[n].status = "garbage"
                               /\ steps[k + 1].action = "transfer-ownership" =>
                                     After(k)[n].owner = steps[k + 1].targetOwner
                               /\ (steps[k + 1].action = "add-reference"
                                   /\ HasRefCount(Before(k)[n])) =>
                                     After(k)[n].refCount = Before(k)[n].refCount + 1

\* C24 witness: the last step replayed is a transfer-ownership that found
\* its block among two, and the other block is one of another id.
C24_Witness ==
    /\ Reconstructed
    /\ currentMemoryStep = 2
    /\ steps[3].action = "transfer-ownership"
    /\ Len(memoryBlocks) = 2
    /\ \E n \in BlockIndices :
          /\ memoryBlocks[n].id = steps[3].blockId
          /\ memoryBlocks[n].owner = steps[3].targetOwner
    /\ \E n \in BlockIndices : memoryBlocks[n].id # steps[3].blockId

(***************************************************************************)
(* The memory scenario catalog (data/memoryScenarios.ts).                  *)
(***************************************************************************)
U == Undefined

allocationScenario ==
    [cpp |-> << Step("allocate-heap", "cpp-heap-block", 400, U, U, U),
                Step("allocate-stack", "cpp-stack-ptr", 8, "data", U, "cpp-heap-block"),
                Step("scope-enter", U, NoSize, U, U, U),
                Step("free", "cpp-heap-block", NoSize, U, U, U) >>,
     rust |-> << Step("allocate-heap", "rust-heap-block", 5, U, U, U),
                 Step("allocate-stack", "rust-stack-s1", 24, "s1", U, "rust-heap-block"),
                 Step("transfer-ownership", "rust-stack-s1", NoSize, "s1", "s2", U),
                 Step("free", "rust-heap-block", NoSize, U, U, U) >>,
     python |-> << Step("allocate-heap", "py-heap-obj", 64, U, U, U),
                   Step("allocate-stack", "py-stack-data", 8, "data", U, "py-heap-obj"),
                   Step("allocate-stack", "py-stack-alias", 8, "alias", U, "py-heap-obj"),
                   Step("free", "py-stack-alias", NoSize, U, U, U) >>,
     javascript |-> << Step("allocate-heap", "js-block", 32, U, U, U),
                       Step("allocate-stack", "js-stack-ptr", 8, "obj", U, "js-block"),
                       Step("free", "js-stack-ptr", NoSize, U, U, U),
                       Step("gc-sweep", "js-block", NoSize, U, U, U) >>,
     go |-> << Step("allocate-heap", "go-heap-obj", 80, U, U, U),
               Step("allocate-stack", "go-stack-hdr", 24, "data", U, "go-heap-obj"),
               Step("scope-enter", U, NoSize, U, U, U) >>]

safetyScenario ==
    [cpp |-> << Step("allocate-heap", "cpp-leak-heap", 200, U, U, U),
                Step("allocate-stack", "cpp-leak-stack", 8, "data", U, "cpp-leak-heap"),
                Step("leak", "cpp-leak-heap", NoSize, U, U, U),
                Step("free", "cpp-leak-stack", NoSize, U, U, U) >>,
     rust |-> << Step("allocate-heap", "rust-safe-heap", 4, U, U, U) >>,
     python |-> << Step("allocate-heap", "py-safe-heap", 64, U, U, U) >>,
     javascript |-> << Step("allocate-heap", "js-safe-heap", 16, U, U, U) >>,
     go |-> << Step("allocate-heap", "go-safe-heap", 40, U, U, U) >>]

\* MEMORY_SCENARIOS, by id.
MEMORY_SCENARIOS == [allocation |-> allocationScenario, safety |-> safetyScenario]

MemoryScenarioIds == DOMAIN MEMORY_SCENARIOS

\* scenario?.implementations[language]?.steps || []
StepsOf(id, lang) ==
    IF id \in MemoryScenarioIds THEN MEMORY_SCENARIOS[id][lang] ELSE <<>>

(***************************************************************************)
(* LabSpec: the memory lab. Each action is one handler followed by the     *)
(* effects React runs before the next event.                               *)
(***************************************************************************)

\* The sync effect (deps: currentMemoryStep, language, reconstructState):
\* it runs when the step index, the language or the step list changed, and
\* calls reconstructState(currentMemoryStep). `stored` are the store's
\* blocks after the handler.
SyncEffect(stored, id, lang, idx) ==
    IF idx # currentMemoryStep \/ lang # language \/ id # currentMemoryScenario
    THEN reconstructState(stored, StepsOf(id, lang), lang, idx)
    ELSE stored

\* Whether that run of the effect throws.
SyncThrows(id, lang, idx) ==
    /\ idx # currentMemoryStep \/ lang # language \/ id # currentMemoryScenario
    /\ reconstructThrows(StepsOf(id, lang), idx)

\* The store after mount: the auto-select effect chose MEMORY_SCENARIOS[0]
\* and the sync effect reconstructed step 0.
LabInit ==
    /\ language = "cpp"
    /\ currentMemoryScenario = "allocation"
    /\ steps = StepsOf("allocation", "cpp")
    /\ currentMemoryStep = 0
    /\ memoryBlocks = reconstructState(<<>>, StepsOf("allocation", "cpp"), "cpp", 0)
    /\ isPlaying = FALSE
    /\ crashed = FALSE
    /\ lastOp = [op |-> "none", from |-> 0]
    /\ SimIdle

\* The store and component after a handler set (id, lang, idx, stored, playing).
Settle(op, id, lang, idx, stored, playing) ==
    /\ currentMemoryScenario' = id
    /\ language' = lang
    /\ steps' = StepsOf(id, lang)
    /\ currentMemoryStep' = idx
    /\ memoryBlocks' = SyncEffect(stored, id, lang, idx)
    /\ crashed' = SyncThrows(id, lang, idx)
    /\ isPlaying' = playing
    /\ lastOp' = [op |-> op, from |-> currentMemoryStep]
    /\ UNCHANGED simVars

\* An id that getScenarioById does not find.
UnknownScenarioIds == {"no-such-scenario"}

\* handleSelectScenario(id): setIsPlaying(false); setMemoryScenario(id).
LabSelectScenario ==
    \E id \in MemoryScenarioIds \cup UnknownScenarioIds :
        /\ ~crashed
        /\ Settle("selectScenario", id, language, 0, <<>>, FALSE)

\* nextMemoryStep() behind the Next button, which is disabled at the last step.
nextMemoryStep(idx) == idx + 1

LabNext ==
    /\ ~crashed
    /\ ~(currentMemoryStep >= Len(steps) - 1)
    /\ Settle("next", currentMemoryScenario, language,
              nextMemoryStep(currentMemoryStep), memoryBlocks, isPlaying)

\* prevMemoryStep() behind the Prev button, which is disabled at step 0.
prevMemoryStep(idx) == Max(0, idx - 1)

LabPrev ==
    /\ ~crashed
    /\ currentMemoryStep # 0
    /\ Settle("prev", currentMemoryScenario, language,
              prevMemoryStep(currentMemoryStep), memoryBlocks, isPlaying)

\* handleReset: setIsPlaying(false); resetMemoryScenario().
LabReset ==
    /\ ~crashed
    /\ Settle("reset", currentMemoryScenario, language, 0, <<>>, FALSE)

\* setLanguage(lang) from the LanguageSelector: the step index is kept.
LabSetLanguage ==
    \E lang \in Languages :
        /\ ~crashed
        /\ Settle("setLanguage", currentMemoryScenario, lang,
                  currentMemoryStep, memoryBlocks, isPlaying)

\* handlePlayPause
LabPlayPause ==
    /\ ~crashed
    /\ Settle("playPause", currentMemoryScenario, language,
              currentMemoryStep, memoryBlocks, ~isPlaying)

\* Mutant of LabAutoplayTick: the callback advances without comparing the
\* index with the last step.
LabAutoplayTickUnguarded ==
    /\ ~crashed
    /\ isPlaying
    /\ Len(steps) > 0
    /\ Settle("autoplay", currentMemoryScenario, language,
              nextMemoryStep(currentMemoryStep), memoryBlocks, isPlaying)

\* The auto-play interval callback (installed while isPlaying and the step
\* list is not empty).
LabAutoplayTick ==
    /\ ~crashed
    /\ isPlaying
    /\ Len(steps) > 0
    /\ IF currentMemoryStep < Len(steps) - 1
       THEN Settle("autoplay", currentMemoryScenario, language,
                   nextMemoryStep(currentMemoryStep), memoryBlocks, isPlaying)
       ELSE Settle("autoplay", currentMemoryScenario, language,
                   currentMemoryStep, memoryBlocks, FALSE)

LabNext_ ==
    \/ LabSelectScenario
    \/ LabNext
    \/ LabPrev
    \/ LabReset
    \/ LabSetLanguage
    \/ LabPlayPause
    \/ LabAutoplayTick

LabSpec == LabInit /\ [][LabNext_]_vars

(***************************************************************************)
(* PlaySpec: the memory lab on one catalog scenario and language, with the *)
(* stepper buttons and auto-play only. The interval is cleared and set     *)
(* again by the auto-play effect after every change of the step index, so  *)
(* a callback always holds the index of the render before it fires.        *)
(***************************************************************************)
PlayInit ==
    /\ language \in Languages
    /\ currentMemoryScenario \in MemoryScenarioIds
    /\ steps = StepsOf(currentMemoryScenario, language)
    /\ currentMemoryStep = 0
    /\ memoryBlocks = reconstructState(<<>>, steps, language, 0)
    /\ isPlaying = FALSE
    /\ crashed = FALSE
    /\ lastOp = [op |-> "none", from |-> 0]
    /\ SimIdle

PlayNext ==
    \/ LabNext
    \/ LabPrev
    \/ LabReset
    \/ LabPlayPause
    \/ LabAutoplayTick

PlaySpec == PlayInit /\ [][PlayNext]_vars

C19_UnknownScenario ==
    currentMemoryScenario \notin MemoryScenarioIds =>
        /\ ~crashed
        /\ steps = <<>>
        /\ memoryBlocks = <<>>
        /\ currentMemoryStep = 0

\* C19 witness: an unknown id was selected at a later step of a scenario,
\* and the lab has since handled a language change.
C19_Witness ==
    /\ currentMemoryScenario \in UnknownScenarioIds
    /\ lastOp.op = "setLanguage"
    /\ language # "cpp"
    /\ ~crashed

\* No two blocks of a working set have the same id.
UniqueIds(blocks) ==
    \A m, n \in 1..Len(blocks) : m # n => blocks[m].id # blocks[n].id

\* C25: block ids are unique within a replay. For every catalog scenario,
\* language and index of that language's step list, no two blocks of the
\* reconstruction share an id; and no two blocks the lab displays share one.
C25_UniqueIds ==
    /\ \A id \in MemoryScenarioIds, lang \in Languages :
          \A k \in 0..(Len(StepsOf(id, lang)) - 1) :
              UniqueIds(replayFrom(<<>>, StepsOf(id, lang), lang, 0, k))
    /\ UniqueIds(memoryBlocks)

\* C25 witness: the lab displays three blocks, two of them pushed by steps
\* of the same action.
C25_Witness ==
    /\ lastOp.op = "next"
    /\ ~crashed
    /\ Len(memoryBlocks) = 3
    /\ \E m, n \in BlockIndices :
          m # n /\ memoryBlocks[m].type = memoryBlocks[n].type

\* C28 (as claimed): the displayed memory state matches the replay index.
\* After a select-scenario, next, prev or reset that leaves a non-empty step
\* list and an index inside it, with effects settled, the store's blocks
\* are the fold of steps[0..currentMemoryStep].
C28_DisplayMatchesIndex ==
    [][(/\ lastOp'.op \in {"selectScenario", "next", "prev", "reset"}
        /\ ~crashed'
        /\ Len(steps') > 0
        /\ currentMemoryStep' <= Len(steps') - 1)
       => memoryBlocks' = replayFrom(<<>>, steps', language', 0,
                                     currentMemoryStep')]_vars

\* C9 (as claimed): step index bounds. After any sequence of select-scenario,
\* advance, retreat, reset, autoplay ticks and language changes, the current
\* step index lies in [0, lastStepIndex] of the active language's step list.
C9_StepIndexInBounds ==
    Len(steps) > 0 => currentMemoryStep \in 0..(Len(steps) - 1)

\* C10 (as claimed): whenever the language changes while a scenario is
\* selected, the reconstruction over the new language's step list runs
\* without throwing and the displayed blocks become the fold of the new
\* language's steps up to the current index.
C10_LanguageChangeReconstructs ==
    [][(language' # language /\ currentMemoryScenario \in MemoryScenarioIds)
        => /\ ~crashed'
           /\ currentMemoryStep' <= Len(steps') - 1
           /\ memoryBlocks' = replayFrom(<<>>, steps', language', 0,
                                         currentMemoryStep')]_vars

(***************************************************************************)
(* The concurrency scenario catalog (data/concurrencyScenarios.ts).        *)
(* A task definition's name, type and blocksEventLoop flag are never read  *)
(* by a statement that changes state, so only durations are kept.          *)
(***************************************************************************)
ConcurrencyScenarioIds == {"web-server", "file-processing", "api-aggregator"}

\* scenario.tasks.map(t => t.duration), in list order.
ScenarioDurations(id) ==
    CASE id = "web-server"      -> <<200, 150, 300, 2000, 100, 250, 150, 1500>>
      [] id = "file-processing" -> <<100, 500, 1500, 200, 2000, 300>>
      [] id = "api-aggregator"  -> <<300, 250, 400, 600, 1000>>

\* Task lists outside the catalog, for what simulate does on scenario data
\* the catalog does not hold: the three tasks of 200, 150 and 2000 ms, and
\* tasks of duration 0.
ProbeScenarioIds == {"probe-serial", "probe-instant"}

ProbeDurations(id) ==
    CASE id = "probe-serial"  -> <<200, 150, 2000>>
      [] id = "probe-instant" -> <<0, 0>>

\* getScenarioById(id) finds a scenario.
KnownScenarioIds == ConcurrencyScenarioIds \cup ProbeScenarioIds

\* scenario.tasks.map(t => t.duration) of any scenario.
TaskDurations(id) ==
    IF id \in ConcurrencyScenarioIds THEN ScenarioDurations(id)
    ELSE ProbeDurations(id)

\* getModelForLanguage(scenario, language).model
ModelOf(id, lang) ==
    CASE lang = "javascript" -> "event-loop"
      [] lang = "go"         -> "goroutines"
      [] lang = "cpp"        -> "threads"
      [] lang = "rust"       -> "async-await"
      [] lang = "python"     -> IF id = "file-processing" THEN "multiprocessing"
                                ELSE "async-await"

\* getLanes()
getLanes(model) == IF model = "event-loop" THEN 1 ELSE 4

\* task.startTime === undefined
NoStart == -1

\* The 30 s ceiling of the tick loop.
Ceiling == 30000

\* The task initialisation effect: one queued task per task definition,
\* lane 0 under event-loop and index % lanes otherwise. The task id
\* `task-${n}` is kept as n.
createTasks(id, lang) ==
    [k \in 1..Len(TaskDurations(id)) |->
        [id |-> k - 1,
         status |-> "queued",
         lane |-> IF ModelOf(id, lang) = "event-loop" THEN 0
                  ELSE (k - 1) % getLanes(ModelOf(id, lang)),
         duration |-> TaskDurations(id)[k],
         startTime |-> NoStart]]

(***************************************************************************)
(* simulate: one animation-frame callback of a tick loop.                  *)
(***************************************************************************)

\* Mutant of canStart: the goroutines branch leaves canStart at its initial
\* value, false.
canStartUnset(currentTasks, task, model) ==
    IF model = "event-loop"
    THEN ~\E n \in 1..Len(currentTasks) : currentTasks[n].status = "running"
    ELSE IF model = "goroutines"
    THEN FALSE
    ELSE ~\E n \in 1..Len(currentTasks) :
              currentTasks[n].lane = task.lane /\ currentTasks[n].status = "running"

\* The admission rule for a queued task, read off the snapshot `currentTasks`.
canStart(currentTasks, task, model) ==
    IF model = "event-loop"
    THEN ~\E n \in 1..Len(currentTasks) : currentTasks[n].status = "running"
    ELSE IF model = "goroutines"
    THEN TRUE
    ELSE ~\E n \in 1..Len(currentTasks) :
              currentTasks[n].lane = task.lane /\ currentTasks[n].status = "running"

\* Mutant of tickTask: the status of an admitted task is recomputed from
\* the clock on every tick.
tickTaskRecomputed(currentTasks, task, elapsed, model) ==
    IF task.status = "queued"
    THEN IF canStart(currentTasks, task, model)
         THEN [task EXCEPT !.status = "running", !.startTime = elapsed]
         ELSE task
    ELSE IF task.startTime # NoStart
    THEN [task EXCEPT !.status = IF elapsed - task.startTime >= task.duration
                                 THEN "completed" ELSE "running"]
    ELSE task

\* Mutant of tickTask: a running task that is not yet complete is admitted
\* again, with the start time of this tick.
tickTaskRestamped(currentTasks, task, elapsed, model) ==
    IF task.status = "queued"
    THEN IF canStart(currentTasks, task, model)
         THEN [task EXCEPT !.status = "running", !.startTime = elapsed]
         ELSE task
    ELSE IF task.status = "running" /\ task.startTime # NoStart
    THEN IF elapsed - task.startTime >= task.duration
         THEN [task EXCEPT !.status = "completed"]
         ELSE [task EXCEPT !.startTime = elapsed]
    ELSE task

\* The body of currentTasks.forEach for one task: what updateTask leaves in
\* the store for that task's id.
tickTask(currentTasks, task, elapsed, model) ==
    IF task.status = "queued"
    THEN IF canStart(currentTasks, task, model)
         THEN [task EXCEPT !.status = "running", !.startTime = elapsed]
         ELSE task
    ELSE IF task.status = "running" /\ task.startTime # NoStart
    THEN IF elapsed - task.startTime >= task.duration
         THEN [task EXCEPT !.status = "completed"]
         ELSE task
    ELSE task

\* currentTasks.every(t => t.status === 'completed')
allComplete(currentTasks) ==
    \A k \in 1..Len(currentTasks) : currentTasks[k].status = "completed"

\* Mutant of continueLoop: the ceiling test left out.
continueLoopNoCeiling(currentTasks, elapsed) == ~allComplete(currentTasks)

\* if (!allComplete && elapsed < 30000) requestAnimationFrame(simulate)
continueLoop(currentTasks, elapsed) ==
    ~allComplete(currentTasks) /\ elapsed < Ceiling

\* scenario.tasks.reduce((sum, t) => Math.max(sum, t.duration), 0)
RECURSIVE MaxOf(_)
MaxOf(ds) == IF ds = <<>> THEN 0 ELSE Max(Head(ds), MaxOf(Tail(ds)))

\* NaN, kept as a value that is no result of the arithmetic on numbers.
NaN == -1

\* Math.min(Math.round((idealTime / totalDuration) * 100), 100); division
\* by zero gives Infinity (capped to 100) or, for 0/0, NaN.
efficiencyOf(idealTime, totalDuration) ==
    IF totalDuration = 0
    THEN (IF idealTime = 0 THEN NaN ELSE 100)
    ELSE LET rounded == (2 * 100 * idealTime + totalDuration) \div (2 * totalDuration)
         IN  IF rounded < 100 THEN rounded ELSE 100

memoryOverheadOf(model) ==
    IF model = "goroutines" THEN "Low (2KB/task)"
    ELSE IF model = "threads" THEN "High (1MB/thread)"
    ELSE "Minimal"

\* Mutant of metricsOf: the total time is clamped to the ceiling.
metricsOfClamped(loop, elapsed) ==
    [totalTime |-> IF elapsed < Ceiling THEN elapsed ELSE Ceiling,
     efficiency |-> efficiencyOf(MaxOf(TaskDurations(loop.scenario)), elapsed),
     memoryOverhead |-> memoryOverheadOf(ModelOf(loop.scenario, loop.lang))]

\* The metrics published when a loop stops.
metricsOf(loop, elapsed) ==
    [totalTime |-> elapsed,
     efficiency |-> efficiencyOf(MaxOf(TaskDurations(loop.scenario)), elapsed),
     memoryOverhead |-> memoryOverheadOf(ModelOf(loop.scenario, loop.lang))]

\* The forEach over a task list that each iteration reads again: task k is
\* evaluated against the list as the iterations before it left it.
RECURSIVE tickInOrder(_, _, _, _)
tickInOrder(ts, k, elapsed, model) ==
    IF k > Len(ts) THEN ts
    ELSE tickInOrder([ts EXCEPT ![k] = tickTask(ts, ts[k], elapsed, model)],
                     k + 1, elapsed, model)

\* Mutant of simulate: admission sees the updates made earlier in the tick.
simulateInTick(st, loop) ==
    LET elapsed == loop.age
        currentTasks == st.tasks
        model == ModelOf(loop.scenario, loop.lang)
        updated == tickInOrder(currentTasks, 1, elapsed, model)
    IN  IF continueLoop(currentTasks, elapsed)
        THEN [st EXCEPT !.tasks = updated,
                        !.currentTime = elapsed,
                        !.pending = Append(st.pending, loop)]
        ELSE [st EXCEPT !.tasks = updated,
                        !.currentTime = elapsed,
                        !.isRunning = FALSE,
                        !.metrics = <<metricsOf(loop, elapsed)>>]

\* One callback. `st` is the store and component state it finds; `loop` is
\* the closure (its scenario and language are those of the render that
\* started it, its age is Date.now() - startTime).
simulate(st, loop) ==
    LET elapsed == loop.age
        currentTasks == st.tasks
        model == ModelOf(loop.scenario, loop.lang)
        updated == [k \in 1..Len(currentTasks) |->
                       tickTask(currentTasks, currentTasks[k], elapsed, model)]
    IN  IF continueLoop(currentTasks, elapsed)
        THEN [st EXCEPT !.tasks = updated,
                        !.currentTime = elapsed,
                        !.pending = Append(st.pending, loop)]
        ELSE [st EXCEPT !.tasks = updated,
                        !.currentTime = elapsed,
                        !.isRunning = FALSE,
                        !.metrics = <<metricsOf(loop, elapsed)>>]

\* The callbacks of one frame, run in the order they were requested.
RECURSIVE runCallbacks(_, _)
runCallbacks(st, loops) ==
    IF loops = <<>> THEN st
    ELSE runCallbacks(simulate(st, Head(loops)), Tail(loops))

(***************************************************************************)
(* SimSpec: the concurrency simulator on one catalog scenario and          *)
(* language: Run, Stop, Reset and the animation frames.                    *)
(***************************************************************************)

\* Date.now() advances by one of these between two frames (ms).
FrameDeltas == {0, 500, 30000}

\* The memory lab's variables when the memory lab is not part of the run.
MemIdle ==
    /\ steps = <<>>
    /\ currentMemoryScenario = Undefined
    /\ currentMemoryStep = 0
    /\ memoryBlocks = <<>>
    /\ isPlaying = FALSE
    /\ crashed = FALSE

\* The lab after mount and the task initialisation effect, for any catalog
\* scenario and language.
SimInit ==
    /\ language \in Languages
    /\ currentConcurrencyScenario \in ConcurrencyScenarioIds
    /\ tasks = createTasks(currentConcurrencyScenario, language)
    /\ isRunning = FALSE
    /\ currentTime = 0
    /\ metrics = <<>>
    /\ frames = <<>>
    /\ simulationRef = 0
    /\ lastOp = [op |-> "none", from |-> 0]
    /\ MemIdle

\* Tick loops pending at once are capped at this many.
MaxLoops == 2

\* cancelAnimationFrame(simulationRef.current): simulationRef is the
\* position in `frames` of the callback requested last, 0 when that
\* callback has already run or was cancelled.
cancelFrame(pending, ref) ==
    IF ref # 0
    THEN [k \in 1..(Len(pending) - 1) |->
             IF k < ref THEN pending[k] ELSE pending[k + 1]]
    ELSE pending

\* runSimulation, behind the Run button (shown while not running, disabled
\* without tasks).
SimRun ==
    /\ ~isRunning
    /\ tasks # <<>>
    /\ Len(frames) < MaxLoops
    /\ currentConcurrencyScenario \in KnownScenarioIds
    /\ isRunning' = TRUE
    /\ currentTime' = 0
    /\ frames' = Append(frames, [age |-> 0,
                                 scenario |-> currentConcurrencyScenario,
                                 lang |-> language])
    /\ simulationRef' = Len(frames) + 1
    /\ lastOp' = [op |-> "run", from |-> 0]
    /\ UNCHANGED <<tasks, metrics, currentConcurrencyScenario>>
    /\ UNCHANGED memVars

\* stopSimulation, behind the Stop button (shown while running).
SimStop ==
    /\ isRunning
    /\ tasks # <<>>
    /\ frames' = cancelFrame(frames, simulationRef)
    /\ simulationRef' = 0
    /\ isRunning' = FALSE
    /\ lastOp' = [op |-> "stop", from |-> 0]
    /\ UNCHANGED <<tasks, metrics, currentTime, currentConcurrencyScenario>>
    /\ UNCHANGED memVars

\* reset: stopSimulation(), then every task back to queued.
SimReset ==
    /\ frames' = cancelFrame(frames, simulationRef)
    /\ simulationRef' = 0
    /\ isRunning' = FALSE
    /\ currentTime' = 0
    /\ metrics' = <<>>
    /\ tasks' = [k \in 1..Len(tasks) |->
                    [tasks[k] EXCEPT !.status = "queued", !.startTime = NoStart]]
    /\ lastOp' = [op |-> "reset", from |-> 0]
    /\ UNCHANGED currentConcurrencyScenario
    /\ UNCHANGED memVars

\* One animation frame, d ms after the previous one: every pending callback
\* runs, in the order requested; the ones that continue are pending again.
Frame(d) ==
    /\ frames # <<>>
    /\ LET aged == [k \in 1..Len(frames) |-> [frames[k] EXCEPT !.age = @ + d]]
           st == runCallbacks([tasks |-> tasks, isRunning |-> isRunning,
                               currentTime |-> currentTime, metrics |-> metrics,
                               pending |-> <<>>], aged)
       IN  /\ tasks' = st.tasks
           /\ isRunning' = st.isRunning
           /\ currentTime' = st.currentTime
           /\ metrics' = st.metrics
           /\ frames' = st.pending
           /\ simulationRef' = Len(st.pending)
    /\ lastOp' = [op |-> "frame", from |-> 0]
    /\ UNCHANGED currentConcurrencyScenario
    /\ UNCHANGED memVars

SimFrame == \E d \in FrameDeltas : Frame(d)

\* A frame in which the clock has advanced.
SimFrameAdvancing == \E d \in FrameDeltas \ {0} : Frame(d)

SimNext ==
    \/ SimRun
    \/ SimStop
    \/ SimReset
    \/ SimFrame

SimSpec == SimInit /\ [][SimNext]_vars

\* Frames keep firing and the clock keeps advancing.
SimLiveSpec == SimSpec /\ WF_vars(SimFrameAdvancing)

(***************************************************************************)
(* ProbeSpec and CleanRunSpec: the simulator on the task lists outside the *)
(* catalog, with a finer clock. In CleanRunSpec a run starts only from     *)
(* tasks that are all queued (after mount or after a reset).               *)
(***************************************************************************)
ProbeLanguages == {"javascript", "go", "cpp"}

\* Date.now() advances by one of these between two frames (ms).
ProbeDeltas == {0, 100, 1000, 30000}

ProbeInit ==
    /\ language \in ProbeLanguages
    /\ currentConcurrencyScenario \in ProbeScenarioIds
    /\ tasks = createTasks(currentConcurrencyScenario, language)
    /\ isRunning = FALSE
    /\ currentTime = 0
    /\ metrics = <<>>
    /\ frames = <<>>
    /\ simulationRef = 0
    /\ lastOp = [op |-> "none", from |-> 0]
    /\ MemIdle

ProbeFrame == \E d \in ProbeDeltas : Frame(d)

ProbeNext ==
    \/ SimRun
    \/ SimStop
    \/ SimReset
    \/ ProbeFrame

ProbeSpec == ProbeInit /\ [][ProbeNext]_vars

\* Run pressed while every task is queued.
CleanRun ==
    /\ \A k \in 1..Len(tasks) : tasks[k].status = "queued"
    /\ SimRun

CleanRunNext ==
    \/ CleanRun
    \/ SimStop
    \/ SimReset
    \/ ProbeFrame

CleanRunSpec == ProbeInit /\ [][CleanRunNext]_vars

(***************************************************************************)
(* ReinitSpec: SimSpec with the scenario selector and the language         *)
(* selector. Neither cancels a pending frame, so a tick loop started       *)
(* before a selection keeps running with the scenario and model of the     *)
(* render that started it.                                                 *)
(***************************************************************************)
ReinitLanguages == {"javascript", "go"}

ReinitScenarios == {"api-aggregator", "file-processing"}

ReinitInit ==
    /\ language \in ReinitLanguages
    /\ currentConcurrencyScenario \in ReinitScenarios
    /\ tasks = createTasks(currentConcurrencyScenario, language)
    /\ isRunning = FALSE
    /\ currentTime = 0
    /\ metrics = <<>>
    /\ frames = <<>>
    /\ simulationRef = 0
    /\ lastOp = [op |-> "none", from |-> 0]
    /\ MemIdle

\* The task initialisation effect (deps: scenario?.id, language,
\* implementation) after a render with scenario id and language lang.
initializeTasks(id, lang) ==
    /\ tasks' = createTasks(id, lang)
    /\ currentTime' = 0
    /\ isRunning' = FALSE
    /\ metrics' = <<>>

\* handleSelectScenario(id): setIsRunning(false); setConcurrencyScenario(id)
\* empties the tasks; the initialisation effect runs only when the id changed.
SimSelectScenario ==
    \E id \in ReinitScenarios :
        /\ currentConcurrencyScenario' = id
        /\ IF id # currentConcurrencyScenario
           THEN initializeTasks(id, language)
           ELSE /\ tasks' = <<>>
                /\ isRunning' = FALSE
                /\ UNCHANGED <<currentTime, metrics>>
        /\ lastOp' = [op |-> "selectScenario", from |-> 0]
        /\ UNCHANGED <<frames, simulationRef>>
        /\ UNCHANGED <<steps, currentMemoryScenario, currentMemoryStep,
                       memoryBlocks, isPlaying, crashed, language>>

\* setLanguage(lang) from the LanguageSelector: the initialisation effect
\* runs when the language changed.
SimSetLanguage ==
    \E lang \in ReinitLanguages :
        /\ lang # language
        /\ language' = lang
        /\ initializeTasks(currentConcurrencyScenario, lang)
        /\ lastOp' = [op |-> "setLanguage", from |-> 0]
        /\ UNCHANGED <<frames, simulationRef, currentConcurrencyScenario>>
        /\ UNCHANGED <<steps, currentMemoryScenario, currentMemoryStep,
                       memoryBlocks, isPlaying, crashed>>

\* Date.now() advances by one of these between two frames (ms).
ReinitDeltas == {2500, 30000}

ReinitFrame == \E d \in ReinitDeltas : Frame(d)

ReinitNext ==
    \/ SimRun
    \/ SimStop
    \/ SimReset
    \/ ReinitFrame
    \/ SimSelectScenario
    \/ SimSetLanguage

ReinitSpec == ReinitInit /\ [][ReinitNext]_vars

(***************************************************************************)
(* Claims about the concurrency simulator (SimSpec, SimLiveSpec).          *)
(***************************************************************************)
TaskIndices == 1..Len(tasks)

Running == { k \in TaskIndices : tasks[k].status = "running" }

\* The model of the scenario and language on screen.
currentModel == ModelOf(currentConcurrencyScenario, language)

\* C1 (as claimed): event-loop exclusivity. Under the event-loop model at
\* most one task has status running, in every state.
C1_EventLoopExclusivity ==
    currentModel = "event-loop" => Cardinality(Running) <= 1

\* C2 (as claimed): lane exclusivity. Under threads, async-await and
\* multiprocessing no two running tasks have the same lane.
C2_LaneExclusivity ==
    currentModel \in {"threads", "async-await", "multiprocessing"} =>
        \A j, k \in Running : j # k => tasks[j].lane # tasks[k].lane

Rank(status) ==
    CASE status = "queued" -> 0
      [] status = "running" -> 1
      [] status = "completed" -> 2

\* C3: monotonic task lifecycle. Every step that is not a reset (a tick, a
\* stop, a run) leaves each task in queued, running or completed and never
\* moves it to an earlier status of that order.
C3_MonotonicLifecycle ==
    [][lastOp'.op # "reset" =>
          /\ Len(tasks') = Len(tasks)
          /\ \A k \in TaskIndices :
                /\ tasks'[k].status \in {"queued", "running", "completed"}
                /\ Rank(tasks'[k].status) >= Rank(tasks[k].status)]_vars

\* C3 witness: a tick of a re-run (its clock is behind the start time of a
\* task admitted by the run before the stop) with a task already completed
\* and one still running.
C3_Witness ==
    /\ lastOp.op = "frame"
    /\ \E k \in TaskIndices :
          tasks[k].status = "running" /\ tasks[k].startTime > currentTime
    /\ \E k \in TaskIndices : tasks[k].status = "completed"

\* C4: termination. A tick stops the loop exactly when the tasks it read
\* were all completed or its elapsed time is at least 30000 ms, and with
\* frames firing and the clock advancing a pending loop is eventually no
\* longer pending.
C4_Termination ==
    /\ [][(lastOp'.op = "frame" /\ Len(frames) = 1) =>
             ((frames' = <<>>) <=> (allComplete(tasks) \/ currentTime' >= Ceiling))]_vars
    /\ ((frames # <<>>) ~> (frames = <<>>))

\* C4 witness: a loop stopped by the ceiling with a task that is not
\* completed.
C4_Witness ==
    /\ lastOp.op = "frame"
    /\ frames = <<>>
    /\ ~isRunning
    /\ currentTime >= Ceiling
    /\ Running # {}
    /\ metrics # <<>>

\* The model captured by the tick loop that is pending alone.
loopModel == ModelOf(frames[1].scenario, frames[1].lang)

\* C13: goroutine concurrency. A tick of a goroutines loop turns every task
\* that was queued into a running task started at that tick, whatever else
\* is running and whatever its lane; from all tasks queued, all tasks are
\* running after the first tick.
C13_GoroutinesAdmitAll ==
    [][(lastOp'.op = "frame" /\ Len(frames) = 1 /\ loopModel = "goroutines") =>
          /\ \A k \in TaskIndices :
                tasks[k].status = "queued" =>
                   /\ tasks'[k].status = "running"
                   /\ tasks'[k].startTime = currentTime'
          /\ (\A k \in TaskIndices : tasks[k].status = "queued") =>
                (\A k \in 1..Len(tasks') : tasks'[k].status = "running")]_vars

\* C13 witness: the first tick of a goroutines run has made every task
\* running, two of them in the same lane.
C13_Witness ==
    /\ currentModel = "goroutines"
    /\ lastOp.op = "frame"
    /\ tasks # <<>>
    /\ \A k \in TaskIndices :
          tasks[k].status = "running" /\ tasks[k].startTime = currentTime
    /\ \E j, k \in TaskIndices : j # k /\ tasks[j].lane = tasks[k].lane

\* C17: runaway handling. A tick whose elapsed time has reached 30000 ms
\* while the tasks it read were not all completed ends the run: isRunning is
\* false, no tick is pending, and metrics are published with totalTime equal
\* to the elapsed time of that tick.
C17_RunawayStops ==
    [][(/\ lastOp'.op = "frame"
        /\ Len(frames) = 1
        /\ ~allComplete(tasks)
        /\ currentTime' >= Ceiling) =>
          /\ ~isRunning'
          /\ frames' = <<>>
          /\ Len(metrics') = 1
          /\ metrics'[1].totalTime = currentTime'
          /\ metrics'[1].efficiency \in 0..100]_vars

\* C17 witness: a run stopped past the ceiling with some tasks completed,
\* others still running, and the metrics of that tick published.
C17_Witness ==
    /\ lastOp.op = "frame"
    /\ ~isRunning
    /\ frames = <<>>
    /\ currentTime > Ceiling
    /\ metrics # <<>>
    /\ metrics[1].totalTime = currentTime
    /\ \E k \in TaskIndices : tasks[k].status = "running"
    /\ \E k \in TaskIndices : tasks[k].status = "completed"

C12_EfficiencyBound ==
    metrics # <<>> =>
        /\ metrics[1].efficiency # NaN
        /\ metrics[1].efficiency \in 0..100

RECURSIVE SumOf(_)
SumOf(ds) == IF ds = <<>> THEN 0 ELSE Head(ds) + SumOf(Tail(ds))

\* C14 (as claimed): event-loop runs are serialized. When a run that started
\* from all tasks queued under the event-loop model has completed every
\* task, its total time is at least the sum of the task durations; for the
\* tasks of 200, 150 and 2000 ms it is at least 2350 ms and the efficiency
\* is at most round(2000 / 2350 * 100) = 85.
C14_EventLoopSerialized ==
    (currentModel = "event-loop" /\ metrics # <<>> /\ allComplete(tasks)) =>
        /\ metrics[1].totalTime >= SumOf(TaskDurations(currentConcurrencyScenario))
        /\ currentConcurrencyScenario = "probe-serial" =>
              /\ metrics[1].totalTime >= 2350
              /\ metrics[1].efficiency <= 85

\* C20 (as claimed): completion rule. A tick completes a task it finds
\* running exactly when its elapsed time minus the task's startTime is at
\* least the duration, and a task of duration 0 is completed by the first
\* tick after the one that admitted it, that is by any tick that finds it
\* running.
C20_CompletionRule ==
    [][(lastOp'.op = "frame" /\ Len(frames) = 1) =>
          \A k \in TaskIndices :
             (tasks[k].status = "running" /\ tasks[k].startTime # NoStart) =>
                /\ (tasks'[k].status = "completed")
                      <=> (currentTime' - tasks[k].startTime >= tasks[k].duration)
                /\ tasks[k].duration = 0 => tasks'[k].status = "completed"]_vars

(***************************************************************************)
(* Claims about the simulator with the selectors (ReinitSpec).             *)
(***************************************************************************)

\* C16 (as claimed): stop and reset are distinct. A stop leaves every task
\* as it was, leaves no tick pending and ends the run; a reset returns every
\* task to queued with startTime cleared and clears the current time and
\* the metrics.
C16_StopVersusReset ==
    [][/\ lastOp'.op = "stop" =>
             /\ tasks' = tasks
             /\ ~isRunning'
             /\ frames' = <<>>
       /\ lastOp'.op = "reset" =>
             /\ Len(tasks') = Len(tasks)
             /\ \A k \in 1..Len(tasks') :
                   /\ tasks'[k].status = "queued"
                   /\ tasks'[k].startTime = NoStart
             /\ currentTime' = 0
             /\ metrics' = <<>>]_vars

\* C18 (as claimed): zero tasks. A tick of a run over an empty task list
\* changes nothing and publishes no metrics.
C18_ZeroTasksNoMetrics ==
    [][(lastOp'.op = "frame" /\ tasks = <<>>) =>
          (tasks' = <<>> /\ metrics' = metrics)]_vars

\* C26 (as claimed): nothing moves while the simulator is not running. A
\* frame that finds isRunning false leaves every task as it was.
C26_IdleTasksFrozen ==
    [][(lastOp'.op = "frame" /\ ~isRunning) => tasks' = tasks]_vars

\* C27 (as claimed): at most one tick loop is alive, in every state.
C27_SingleLoop == Len(frames) <= 1

(***************************************************************************)
(* PresetSpec: the preset-driven concurrency lab                           *)
(* (pages/labs/ConcurrencyLab.tsx). Tasks are added from TASK_PRESETS; a   *)
(* tick loop holds the `tasks` and `mode` of the render that started it.   *)
(***************************************************************************)

\* TASK_PRESETS.map(p => p.duration)
TASK_PRESETS == <<500, 1500, 3000, 2000, 5000>>

PresetLanguages == {"go", "cpp"}

\* The mode effect: the mode the lab shows for a language.
ModeOf(lang) ==
    CASE lang = "javascript" -> "event-loop"
      [] lang = "go"         -> "goroutines"
      [] lang \in {"cpp", "rust"} -> "threads"
      [] OTHER               -> "event-loop"

\* MODE_INFO[mode].lanes
PresetLanes(mode) == IF mode = "event-loop" THEN 1 ELSE 4

\* Tasks scheduled at once are capped at this many.
MaxTasks == 2

\* The clock of a tick loop is followed up to this many ms.
MaxClock == 6000

\* Date.now() advances by one of these between two frames (ms).
PresetDeltas == {0, 3000}

PresetInit ==
    /\ language \in PresetLanguages
    /\ currentConcurrencyScenario = Undefined
    /\ tasks = <<>>
    /\ isRunning = FALSE
    /\ currentTime = 0
    /\ metrics = <<>>
    /\ frames = <<>>
    /\ simulationRef = 0
    /\ lastOp = [op |-> "none", from |-> 0]
    /\ MemIdle

\* scheduleTask(preset), behind the preset buttons (disabled while running).
\* The task id `task-${n}` is kept as n; the lane is 0 under event-loop and
\* Math.floor(Math.random() * lanes) otherwise.
PresetSchedule ==
    \E p \in 1..Len(TASK_PRESETS), lane \in 0..(PresetLanes(ModeOf(language)) - 1) :
        /\ ~isRunning
        /\ Len(tasks) < MaxTasks
        /\ tasks' = Append(tasks, [id |-> Len(tasks),
                                   status |-> "queued",
                                   lane |-> lane,
                                   duration |-> TASK_PRESETS[p],
                                   startTime |-> NoStart])
        /\ lastOp' = [op |-> "schedule", from |-> 0]
        /\ UNCHANGED <<isRunning, currentTime, metrics, frames, simulationRef,
                       currentConcurrencyScenario>>
        /\ UNCHANGED memVars

\* runSimulation: the loop closes over the tasks and the mode of this render.
PresetRun ==
    /\ ~isRunning
    /\ tasks # <<>>
    /\ isRunning' = TRUE
    /\ currentTime' = 0
    /\ frames' = Append(frames, [age |-> 0, tasks |-> tasks,
                                 mode |-> ModeOf(language)])
    /\ simulationRef' = Len(frames) + 1
    /\ lastOp' = [op |-> "run", from |-> 0]
    /\ UNCHANGED <<tasks, metrics, currentConcurrencyScenario>>
    /\ UNCHANGED memVars

\* stopSimulation
PresetStop ==
    /\ isRunning
    /\ tasks # <<>>
    /\ frames' = cancelFrame(frames, simulationRef)
    /\ simulationRef' = 0
    /\ isRunning' = FALSE
    /\ lastOp' = [op |-> "stop", from |-> 0]
    /\ UNCHANGED <<tasks, metrics, currentTime, currentConcurrencyScenario>>
    /\ UNCHANGED memVars

\* reset: stopSimulation(); clearTasks(); setCurrentTime(0).
PresetReset ==
    /\ frames' = cancelFrame(frames, simulationRef)
    /\ simulationRef' = 0
    /\ isRunning' = FALSE
    /\ tasks' = <<>>
    /\ currentTime' = 0
    /\ lastOp' = [op |-> "reset", from |-> 0]
    /\ UNCHANGED <<metrics, currentConcurrencyScenario>>
    /\ UNCHANGED memVars

\* setLanguage(lang) from the LanguageSelector, followed by the mode effect.
PresetSetLanguage ==
    \E lang \in PresetLanguages :
        /\ lang # language
        /\ language' = lang
        /\ lastOp' = [op |-> "setLanguage", from |-> 0]
        /\ UNCHANGED simVars
        /\ UNCHANGED <<steps, currentMemoryScenario, currentMemoryStep,
                       memoryBlocks, isPlaying, crashed>>

\* The body of tasks.forEach for the captured task `task` (of the captured
\* list `captured`): what the updateTask calls leave in the store's task
\* `stored` of the same id.
presetTickTask(captured, task, stored, elapsed, mode) ==
    IF task.status = "queued"
    THEN IF (~\E n \in 1..Len(captured) :
                 captured[n].lane = task.lane /\ captured[n].status = "running")
            \/ mode = "goroutines"
         THEN [stored EXCEPT !.status = "running", !.startTime = elapsed]
         ELSE stored
    ELSE IF task.status = "running" /\ task.startTime # NoStart
    THEN LET checked == IF elapsed - task.startTime >= task.duration
                        THEN [stored EXCEPT !.status = "completed"]
                        ELSE stored
         IN  IF mode = "event-loop" /\ task.duration > 2000
             THEN [checked EXCEPT !.status = "blocked"]
             ELSE checked
    ELSE stored

\* One callback of the preset lab's loop. updateTask maps over the store's
\* tasks by id; the loop's own list is never replaced.
presetSimulate(st, loop) ==
    LET elapsed == loop.age
        updated == [k \in 1..Len(st.tasks) |->
                       IF k <= Len(loop.tasks)
                       THEN presetTickTask(loop.tasks, loop.tasks[k],
                                           st.tasks[k], elapsed, loop.mode)
                       ELSE st.tasks[k]]
    IN  IF \E n \in 1..Len(loop.tasks) : loop.tasks[n].status # "completed"
        THEN [st EXCEPT !.tasks = updated,
                        !.currentTime = elapsed,
                        !.pending = Append(st.pending, loop)]
        ELSE [st EXCEPT !.tasks = updated,
                        !.currentTime = elapsed,
                        !.isRunning = FALSE]

RECURSIVE runPresetCallbacks(_, _)
runPresetCallbacks(st, loops) ==
    IF loops = <<>> THEN st
    ELSE runPresetCallbacks(presetSimulate(st, Head(loops)), Tail(loops))

\* One animation frame, d ms after the previous one.
PresetFrame ==
    \E d \in PresetDeltas :
        /\ frames # <<>>
        /\ \A k \in 1..Len(frames) : frames[k].age + d <= MaxClock
        /\ LET aged == [k \in 1..Len(frames) |-> [frames[k] EXCEPT !.age = @ + d]]
               st == runPresetCallbacks([tasks |-> tasks, isRunning |-> isRunning,
                                         currentTime |-> currentTime,
                                         pending |-> <<>>], aged)
           IN  /\ tasks' = st.tasks
               /\ isRunning' = st.isRunning
               /\ currentTime' = st.currentTime
               /\ frames' = st.pending
               /\ simulationRef' = Len(st.pending)
        /\ lastOp' = [op |-> "frame", from |-> 0]
        /\ UNCHANGED <<metrics, currentConcurrencyScenario>>
        /\ UNCHANGED memVars

PresetNext ==
    \/ PresetSchedule
    \/ PresetRun
    \/ PresetStop
    \/ PresetReset
    \/ PresetSetLanguage
    \/ PresetFrame

PresetSpec == PresetInit /\ [][PresetNext]_vars

\* C30 (as claimed): the preset lab's run completes. Under goroutines or
\* threads a tick never gives a new startTime to a task that is already
\* running, a task whose time is up is completed by the tick, and once
\* every task is completed the loop has stopped and isRunning is false.
C30_PresetRunCompletes ==
    [][(lastOp'.op = "frame" /\ frames[1].mode \in {"goroutines", "threads"}) =>
          /\ \A k \in TaskIndices :
                /\ tasks[k].status = "running" =>
                      tasks'[k].startTime = tasks[k].startTime
                /\ (tasks[k].status = "running"
                    /\ currentTime' - tasks[k].startTime >= tasks[k].duration) =>
                      tasks'[k].status = "completed"
          /\ allComplete(tasks') => (frames' = <<>> /\ ~isRunning')]_vars

=============================================================================
